---- MODULE Spec2Model ----
(***************************************************************************)
(* Model of the SLIPS clearing-file re-processing scripts:                 *)
(*   src/scripts/SLIPS_recreation.py  (totals calculator, reconciliation   *)
(*                                     coordinator, branch inspector)      *)
(*   src/scripts/SLIPS_insertion.py   (record parser / dataset segmenter)  *)
(*                                                                         *)
(* Text values (codes, amounts, account numbers, file buffers) are         *)
(* sequences of one-character strings, so that strip(), int() and the      *)
(* digit filter are computed character by character as Python does.        *)
(* A database NULL / Python None is the one-element sequence <<"NULL">>.   *)
(***************************************************************************)
EXTENDS Integers, Sequences, FiniteSets, TLC

VARIABLES
    \* ---- totals calculator, applied to a drawn transaction list ----
    transactions,   \* the (code, amount, dest_account) triples passed in
    calc_pc,        \* "ready" before the call, "returned" after it
    calc_result,    \* what calculate_totals_and_hash produced
    \* ---- dataset segmenter (RecordParser) ----
    dataset,        \* the file's text
    seg_pc,         \* "parse": parse_dataset entered; "scan": in the while
                    \* loop of find_branch_data; "done": parse_dataset returned
    pos,            \* find_branch_data's scan cursor (0-based offset)
    header1_at,     \* offset of the decoded file header, -1 if none
    branches,       \* find_branch_data's result so far: for each branch the
                    \* offset of its header and the offsets of its transactions
    \* ---- the store (one direction's tables) and the mapping file ----
    bh,             \* <prefix>_BranchHeader: Id -> row (committed state)
    tx,             \* <prefix>_Transaction rows, in rowid order
    mapping,        \* transaction_codes_mapping.json: entries (old, new)
    uncommitted,    \* header updates pending in the open transaction of the
                    \* pass's main connection (none in autocommit mode)
    \* ---- BranchService.update_branch_status_and_totals ----
    pc,             \* "idle", "pass" (top of the retry loop), "branch" (in the
                    \* for loop of a pass), "returned", "exited" (sys.exit)
    bank_code,      \* the run's bank
    retry,          \* the retry loop's counter
    pending,        \* the pass's fetched pending list (Id, BranchCode)
    idx,            \* position of the pass's for loop in pending
    result,         \* what update_branch_status_and_totals returned
    \* ---- observations of the run, read by the properties only ----
    runs,           \* runs started so far
    passes,         \* passes started in this run
    remaps,         \* confirmed, successful mapping updates in this run
    pass_result,    \* what the last pass returned ("none" while one runs)
    pass_start,     \* Ids that were Pending in the store when the pass began
    run_ok,         \* every connection was established and every prompt
                    \* answered yes so far in this run
    run_bh,         \* bh when the run started
    run_tx,         \* tx when the run started
    answer,         \* the operator's answer to the prompt of the latest
                    \* branch processed, [asked |-> FALSE] if none was shown
    conn_failed,    \* a pass or branch connection of this run could not be
                    \* established
    last_update,    \* the mapping update of the latest branch processed:
                    \* whether it returned True and how many of its UPDATE
                    \* statements had run; [called |-> FALSE] if none
    \* ---- transaction decoder (RecordParser.parse_data_record) ----
    line,           \* the 180-character line passed in
    dec_record,     \* the dict returned, [kind |-> "none"] before the call
    \* ---- BranchInspector.check_and_filter ----
    audit_bank,     \* the bank code passed in, "" before the call
    audit_result    \* the triple returned, [kind |-> "none"] before the call

calcVars == <<transactions, calc_pc, calc_result>>

segVars == <<dataset, seg_pc, pos, header1_at, branches>>

storeVars == <<bh, tx, mapping, uncommitted>>

runVars == <<pc, bank_code, retry, pending, idx, result>>

obsVars == <<runs, passes, remaps, pass_result, pass_start, run_ok, run_bh,
             run_tx, answer, conn_failed, last_update>>

coordVars == <<storeVars, runVars, obsVars>>

decVars == <<line, dec_record>>

auditVars == <<audit_bank, audit_result>>

vars == <<transactions, calc_pc, calc_result,
          dataset, seg_pc, pos, header1_at, branches,
          bh, tx, mapping, uncommitted,
          pc, bank_code, retry, pending, idx, result,
          runs, passes, remaps, pass_result, pass_start, run_ok, run_bh,
          run_tx, answer, conn_failed, last_update, line, dec_record,
          audit_bank,
          audit_result>>

(***************************************************************************)
(* Text helpers                                                            *)
(***************************************************************************)
NULL == <<"NULL">>

Rep(c, n) == [i \in 1..n |-> c]

Min(S) == CHOOSE x \in S : \A y \in S : x <= y
Max(S) == CHOOSE x \in S : \A y \in S : x >= y

\* str.isdigit over the ASCII characters the model draws from
IsDigit(c) == c \in {"0", "1", "2", "3", "4", "5", "6", "7", "8", "9"}

DigitVal(c) ==
    CASE c = "0" -> 0 [] c = "1" -> 1 [] c = "2" -> 2 [] c = "3" -> 3
      [] c = "4" -> 4 [] c = "5" -> 5 [] c = "6" -> 6 [] c = "7" -> 7
      [] c = "8" -> 8 [] c = "9" -> 9

\* str.strip(): leading and trailing blanks removed
Strip(s) ==
    LET keep == {i \in 1..Len(s) : s[i] # " "}
    IN  IF keep = {} THEN <<>> ELSE SubSeq(s, Min(keep), Max(keep))

\* "".join(filter(str.isdigit, s))
RECURSIVE FilterDigits(_)
FilterDigits(s) ==
    IF s = <<>> THEN <<>>
    ELSE IF IsDigit(Head(s)) THEN <<Head(s)>> \o FilterDigits(Tail(s))
         ELSE FilterDigits(Tail(s))

\* value of a sequence of decimal digits
RECURSIVE DigitsValue(_)
DigitsValue(s) ==
    IF s = <<>> THEN 0
    ELSE DigitsValue(SubSeq(s, 1, Len(s) - 1)) * 10 + DigitVal(s[Len(s)])

\* int(s) on an already stripped string: optional sign, then digits only;
\* anything else raises ValueError (ok = FALSE)
PyInt(s) ==
    LET signed == s # <<>> /\ s[1] \in {"-", "+"}
        body   == IF signed THEN Tail(s) ELSE s
        valid  == body # <<>> /\ \A i \in 1..Len(body) : IsDigit(body[i])
    IN  [ok  |-> valid,
         val |-> IF ~valid THEN 0
                 ELSE IF signed /\ s[1] = "-" THEN 0 - DigitsValue(body)
                 ELSE DigitsValue(body)]

(***************************************************************************)
(* Configuration: config/transaction_codes.json as loaded into self.codes. *)
(* code -> "type" string; "25" carries a lower-case type, "30" a type      *)
(* that is neither credit nor debit, "7" is a one-character key.           *)
(***************************************************************************)
Code21 == <<"2", "1">>
Code23 == <<"2", "3">>
Code25 == <<"2", "5">>
Code30 == <<"3", "0">>
Code7  == <<"7">>
Code99 == <<"9", "9">>
Code98 == <<"9", "8">>
Code97 == <<"9", "7">>

transaction_codes ==
    (Code21 :> "C") @@ (Code23 :> "D") @@ (Code25 :> "c") @@
    (Code30 :> "X") @@ (Code7 :> "D")

Upper(t) == CASE t = "c" -> "C" [] t = "d" -> "D" [] OTHER -> t

(***************************************************************************)
(* TransactionAnalyzer.calculate_totals_and_hash, analysis part            *)
(***************************************************************************)
\* line 220: amount in ["0", "000000000000"]
\* (faulty variant: only the one-character literal is recognised)
IsZeroAmount_OnlyShort(amount) == amount = <<"0">>
IsZeroAmount(amount) == amount \in {<<"0">>, Rep("0", 12)}

\* lines 222-235: amount normalised to an integer
AmountInt(amount) ==
    IF amount = NULL THEN 0
    ELSE LET t == Strip(amount)
         IN  IF t = <<>> THEN 0
             ELSE IF PyInt(t).ok THEN PyInt(t).val ELSE 0

\* lines 237-244: numeric part of the destination account
\* (faulty variant: an account with a non-digit in it is not hashed at all)
AccountHash_NoFilter(dest_account) ==
    IF dest_account = NULL \/ dest_account = <<>> THEN 0
    ELSE IF \A i \in 1..Len(dest_account) : IsDigit(dest_account[i])
         THEN DigitsValue(dest_account) ELSE 0
AccountHash(dest_account) ==
    IF dest_account = NULL \/ dest_account = <<>> THEN 0
    ELSE LET account_numeric == FilterDigits(dest_account)
         IN  IF account_numeric = <<>> THEN 0 ELSE DigitsValue(account_numeric)

\* line 246: str(transaction_code).strip() if transaction_code else ""
CodeStr(transaction_code) ==
    IF transaction_code = NULL \/ transaction_code = <<>> THEN <<>>
    ELSE Strip(transaction_code)

EmptyAcc ==
    [credit_values |-> <<>>, debit_values |-> <<>>, hash_total |-> 0,
     unknown_codes |-> {}]

\* lines 247-255: classification of one transaction by its code
\* (faulty variant: a code without entry is dropped, not collected)
Classify_DropsUnknown(acc, code_str, amount_int) ==
    IF code_str \in DOMAIN transaction_codes
    THEN LET tx_type == Upper(transaction_codes[code_str])
         IN  IF tx_type = "C"
             THEN [acc EXCEPT !.credit_values = Append(@, amount_int)]
             ELSE IF tx_type = "D"
             THEN [acc EXCEPT !.debit_values = Append(@, amount_int)]
             ELSE acc
    ELSE acc
\* (faulty variant: credit and debit sides exchanged, type not upper-cased)
Classify_Swapped(acc, code_str, amount_int) ==
    IF code_str \in DOMAIN transaction_codes
    THEN IF transaction_codes[code_str] = "C"
         THEN [acc EXCEPT !.debit_values = Append(@, amount_int)]
         ELSE IF transaction_codes[code_str] = "D"
         THEN [acc EXCEPT !.credit_values = Append(@, amount_int)]
         ELSE acc
    ELSE IF code_str # <<>>
         THEN [acc EXCEPT !.unknown_codes = @ \cup {code_str}]
         ELSE acc
Classify(acc, code_str, amount_int) ==
    IF code_str \in DOMAIN transaction_codes
    THEN LET tx_type == Upper(transaction_codes[code_str])
         IN  IF tx_type = "C"
             THEN [acc EXCEPT !.credit_values = Append(@, amount_int)]
             ELSE IF tx_type = "D"
             THEN [acc EXCEPT !.debit_values = Append(@, amount_int)]
             ELSE acc
    ELSE IF code_str # <<>>
         THEN [acc EXCEPT !.unknown_codes = @ \cup {code_str}]
         ELSE acc

\* lines 218-255: one iteration of the loop over the transactions
AnalyzeStep(acc, t) ==
    IF IsZeroAmount(t.amount) THEN acc
    ELSE Classify([acc EXCEPT !.hash_total = @ + AccountHash(t.dest_account)],
                  CodeStr(t.code), AmountInt(t.amount))

RECURSIVE AnalyzeLoop(_, _)
AnalyzeLoop(txs, acc) ==
    IF txs = <<>> THEN acc
    ELSE AnalyzeLoop(Tail(txs), AnalyzeStep(acc, Head(txs)))

RECURSIVE SumSeq(_)
SumSeq(s) == IF s = <<>> THEN 0 ELSE Head(s) + SumSeq(Tail(s))

\* lines 337-341: the 5-tuple returned when no unknown code was collected
Totals(acc) ==
    [credit_total |-> SumSeq(acc.credit_values),
     credit_count |-> Len(acc.credit_values),
     debit_total  |-> SumSeq(acc.debit_values),
     debit_count  |-> Len(acc.debit_values),
     hash_total   |-> acc.hash_total]

\* What the call yields as far as the transaction list alone decides it:
\* the totals tuple (line 341), or the unknown-code path of lines 258-335,
\* which ends in REFETCH_NEEDED or sys.exit(1) and never in totals.
Analysis(txs) ==
    LET acc == AnalyzeLoop(txs, EmptyAcc)
    IN  IF acc.unknown_codes # {}
        THEN [kind |-> "unknown", unknown_codes |-> acc.unknown_codes]
        ELSE [kind |-> "totals", totals |-> Totals(acc)]

(***************************************************************************)
(* Specification SpecCalc: the calculator applied to drawn inputs          *)
(***************************************************************************)
MaxCalcTx == 2

Amt10000 == Rep("0", 7) \o <<"1", "0", "0", "0", "0">>
Amt5000  == Rep("0", 8) \o <<"5", "0", "0", "0">>
AmtBlank == Rep(" ", 12)
AmtBad   == Rep("0", 11) \o <<"A">>
Acct123  == Rep("0", 9) \o <<"1", "2", "3">>

\* Rows as ingestion stores them: two-character codes, twelve-character
\* amounts (plus the short literal "0" the calculator also recognises).
CalcCodes == {Code21, Code23, Code25, Code30, <<"7", " ">>, Code99,
              <<" ", " ">>}
CalcAmounts == {<<"0">>, Rep("0", 12), Amt10000, Amt5000, AmtBlank, AmtBad}
CalcAccounts == {Acct123, <<"0", "0", "4", "-", "5", " ", "A">>, <<"A", "-">>,
                 <<>>}

Row(c, a, d) == [code |-> c, amount |-> a, dest_account |-> d]

CalcRows ==
    {Row(c, a, Acct123) : c \in CalcCodes, a \in CalcAmounts}
    \cup {Row(Code21, a, d) : a \in {<<"0">>, Amt10000}, d \in CalcAccounts}

SeqsUpTo(S, n) == UNION {[1..k -> S] : k \in 0..n}

\* the segmenter is not running
SegIdle ==
    /\ dataset = <<>>
    /\ seg_pc = "off"
    /\ pos = 0
    /\ header1_at = -1
    /\ branches = <<>>

\* the decoder is not running
DecIdle ==
    /\ line = <<>>
    /\ dec_record = [kind |-> "none"]

\* the inspector is not running
AuditIdle ==
    /\ audit_bank = ""
    /\ audit_result = [kind |-> "none"]

\* no store is attached and no reconciliation is running
CoordIdle ==
    /\ bh = <<>>
    /\ tx = <<>>
    /\ mapping = <<>>
    /\ uncommitted = <<>>
    /\ pc = "off"
    /\ bank_code = ""
    /\ retry = 0
    /\ pending = <<>>
    /\ idx = 0
    /\ result = "none"
    /\ runs = 0
    /\ passes = 0
    /\ remaps = 0
    /\ pass_result = "none"
    /\ pass_start = {}
    /\ run_ok = TRUE
    /\ run_bh = <<>>
    /\ run_tx = <<>>
    /\ answer = [asked |-> FALSE]
    /\ conn_failed = FALSE
    /\ last_update = [called |-> FALSE]

InitCalc ==
    /\ SegIdle
    /\ CoordIdle
    /\ DecIdle
    /\ AuditIdle
    /\ transactions \in SeqsUpTo(CalcRows, MaxCalcTx)
    /\ calc_pc = "ready"
    /\ calc_result = [kind |-> "none"]

\* one call of calculate_totals_and_hash on the drawn list
CalcApply ==
    /\ calc_pc = "ready"
    /\ calc_result' = Analysis(transactions)
    /\ calc_pc' = "returned"
    /\ UNCHANGED <<transactions, segVars, coordVars, decVars, auditVars>>

NextCalc == CalcApply

SpecCalc == InitCalc /\ [][NextCalc]_vars

(***************************************************************************)
(* Claims about the totals calculator (checked under SpecCalc)             *)
(***************************************************************************)
\* the claims' vocabulary, stated on the input list
Excluded(t) == t.amount = <<"0">> \/ t.amount = Rep("0", 12)

NonExcluded == {i \in 1..Len(transactions) : ~Excluded(transactions[i])}

HasEntry(t) == CodeStr(t.code) \in DOMAIN transaction_codes

\* the transaction carries a code (something other than blanks), and that
\* code has no CodeTable entry
UnknownCode(t) == CodeStr(t.code) # <<>> /\ ~HasEntry(t)

HasClass(t, k) ==
    HasEntry(t) /\ Upper(transaction_codes[CodeStr(t.code)]) = k

SumOver(I, v(_)) ==
    SumSeq([i \in 1..Len(transactions) |->
               IF i \in I THEN v(transactions[i]) ELSE 0])

NormAmount(t) == AmountInt(t.amount)

DigitsOnly(t) ==
    IF t.dest_account = NULL THEN 0
    ELSE LET ds == SelectSeq(t.dest_account, IsDigit)
         IN  IF ds = <<>> THEN 0 ELSE DigitsValue(ds)

RemoveAt(s, i) == SubSeq(s, 1, i - 1) \o SubSeq(s, i + 1, Len(s))

ReturnedTotals == calc_pc = "returned" /\ calc_result.kind = "totals"

C6_Coverage ==
    ReturnedTotals =>
        /\ calc_result.totals.credit_count + calc_result.totals.debit_count
             = Cardinality(NonExcluded)
        /\ calc_result.totals.credit_total + calc_result.totals.debit_total
             = SumOver(NonExcluded, NormAmount)

\* C7: removing a transaction whose amount is the literal "0" or
\* "000000000000" from the input leaves the result of the call unchanged
\* (equivalently: adding one to the shorter list changes nothing).
C7_ZeroAmountNoEffect ==
    calc_pc = "returned" =>
        \A i \in 1..Len(transactions) :
            Excluded(transactions[i])
            => Analysis(RemoveAt(transactions, i)) = calc_result

C7_Witness ==
    /\ ReturnedTotals
    /\ \E i \in 1..Len(transactions) :
          transactions[i].amount = Rep("0", 12) /\ HasClass(transactions[i], "C")
    /\ calc_result.totals.credit_count = 1
    /\ calc_result.totals.hash_total > 0

\* C8: when totals are returned, creditTotal/creditCount are the sum/number
\* of the non-excluded transactions of class Credit, debitTotal/debitCount
\* those of class Debit; the two-transaction example gives 10000,1,5000,1.
CreditIdx == {i \in NonExcluded : HasClass(transactions[i], "C")}
DebitIdx  == {i \in NonExcluded : HasClass(transactions[i], "D")}

ExampleInput == <<Row(Code21, Amt10000, Acct123), Row(Code23, Amt5000, Acct123)>>

C8_ClassificationSums ==
    ReturnedTotals =>
        /\ calc_result.totals.credit_total = SumOver(CreditIdx, NormAmount)
        /\ calc_result.totals.credit_count = Cardinality(CreditIdx)
        /\ calc_result.totals.debit_total = SumOver(DebitIdx, NormAmount)
        /\ calc_result.totals.debit_count = Cardinality(DebitIdx)
        /\ transactions = ExampleInput =>
              /\ calc_result.totals.credit_total = 10000
              /\ calc_result.totals.credit_count = 1
              /\ calc_result.totals.debit_total = 5000
              /\ calc_result.totals.debit_count = 1

C8_Witness ==
    /\ ReturnedTotals
    /\ transactions = ExampleInput
    /\ calc_result.totals.credit_total = 10000
    /\ calc_result.totals.debit_total = 5000

\* C9: the returned hashTotal is the sum, over the non-excluded
\* transactions, of the integer formed by the digits of the destination
\* account (0 when it has none).
C9_HashTotal ==
    ReturnedTotals =>
        calc_result.totals.hash_total = SumOver(NonExcluded, DigitsOnly)

C9_Witness ==
    /\ ReturnedTotals
    /\ \E i \in NonExcluded :
          transactions[i].dest_account = <<"0", "0", "4", "-", "5", " ", "A">>
    /\ \E i \in 1..Len(transactions) :
          Excluded(transactions[i]) /\ transactions[i].dest_account = Acct123
    /\ calc_result.totals.hash_total = 45

(***************************************************************************)
(* RecordParser: parse_dataset, find_branch_data, find_transactions        *)
(* (src/scripts/SLIPS_insertion.py).  Offsets are 0-based as in Python.    *)
(***************************************************************************)
RecLen == 180

Marker5555 == <<"5", "5", "5", "5">>
Marker4444 == <<"4", "4", "4", "4">>
Marker0000 == <<"0", "0", "0", "0">>

\* data[a:b] for 0 <= a <= b
Slice(data, a, b) ==
    SubSeq(data, a + 1, IF b > Len(data) THEN Len(data) ELSE b)

\* data.find(sub, start): the lowest offset >= start at which sub occurs,
\* -1 when there is none
\* (faulty variant: offset 0 is returned when there is none)
Find_ZeroWhenAbsent(data, sub, start) ==
    LET hits == {i \in start..(Len(data) - Len(sub)) :
                    \A k \in 1..Len(sub) : data[i + k] = sub[k]}
    IN  IF hits = {} THEN 0 ELSE Min(hits)
Find(data, sub, start) ==
    LET hits == {i \in start..(Len(data) - Len(sub)) :
                    \A k \in 1..Len(sub) : data[i + k] = sub[k]}
    IN  IF hits = {} THEN -1 ELSE Min(hits)

\* the guard before every record slice (lines 121, 147, 165): the
\* 180-character window starting at offset at lies inside the buffer
\* (faulty variant: only the window's first character is required)
FitsWindow_StartOnly(data, at) == at < Len(data)
FitsWindow(data, at) == at + RecLen <= Len(data)

\* find_transactions (lines 161-174): the offsets of the contiguous full
\* 180-character windows that start with "0000", from start_pos on
\* (faulty variant: only the first transaction of a branch is taken)
find_transactions_One(data, start_pos) ==
    IF FitsWindow(data, start_pos)
       /\ Slice(data, start_pos, start_pos + 4) = Marker0000
    THEN <<start_pos>>
    ELSE <<>>
RECURSIVE find_transactions(_, _)
find_transactions(data, start_pos) ==
    IF FitsWindow(data, start_pos)
       /\ Slice(data, start_pos, start_pos + 4) = Marker0000
    THEN <<start_pos>> \o find_transactions(data, start_pos + RecLen)
    ELSE <<>>

\* lines 143-145: a file-header marker found from the cursor on lies
\* strictly before the next branch-header marker
\* (faulty variant: the test is never true)
StopsAtFileHeader_Never(next_5555, next_4444) == FALSE
StopsAtFileHeader(next_5555, next_4444) ==
    next_5555 # -1 /\ next_5555 < next_4444

\* line 155: the cursor after a branch and the transactions consumed with it
\* (faulty variant: the cursor is left at the first transaction)
NextScanPos_NoAdvance(transaction_start, ntx) == transaction_start
\* (faulty variant: the cursor is put back on the branch marker)
NextScanPos_AtMarker(transaction_start, ntx) == transaction_start - RecLen
NextScanPos(transaction_start, ntx) == transaction_start + (ntx * RecLen)

\* parse_dataset up to its call of find_branch_data (lines 114-124)
ParseDataset ==
    /\ seg_pc = "parse"
    /\ LET first_5555 == Find(dataset, Marker5555, 0)
       IN  IF first_5555 = -1
           THEN /\ seg_pc' = "done"
                /\ UNCHANGED <<pos, header1_at>>
           ELSE IF FitsWindow(dataset, first_5555)
           THEN /\ header1_at' = first_5555
                /\ pos' = first_5555 + RecLen
                /\ seg_pc' = "scan"
           ELSE /\ seg_pc' = "done"
                /\ UNCHANGED <<pos, header1_at>>
    /\ UNCHANGED <<dataset, branches, calcVars, coordVars, decVars,
                   auditVars>>

\* one iteration of the while loop of find_branch_data (lines 138-157);
\* leaving the loop returns the branches to parse_dataset, which returns
FindBranchStep ==
    /\ seg_pc = "scan"
    /\ IF ~(pos < Len(dataset))
       THEN seg_pc' = "done" /\ UNCHANGED <<pos, branches>>
       ELSE LET next_4444 == Find(dataset, Marker4444, pos)
                next_5555 == Find(dataset, Marker5555, pos)
            IN  IF next_4444 = -1
                THEN seg_pc' = "done" /\ UNCHANGED <<pos, branches>>
                ELSE IF StopsAtFileHeader(next_5555, next_4444)
                THEN seg_pc' = "done" /\ UNCHANGED <<pos, branches>>
                ELSE IF FitsWindow(dataset, next_4444)
                THEN LET transaction_start == next_4444 + RecLen
                         txs == find_transactions(dataset, transaction_start)
                     IN  /\ branches' = Append(branches,
                                [header2_at |-> next_4444, data |-> txs])
                         /\ pos' = NextScanPos(transaction_start, Len(txs))
                         /\ seg_pc' = "scan"
                ELSE seg_pc' = "done" /\ UNCHANGED <<pos, branches>>
    /\ UNCHANGED <<dataset, header1_at, calcVars, coordVars, decVars,
                   auditVars>>

(***************************************************************************)
(* Specification SpecSeg: the segmenter applied to drawn buffers           *)
(***************************************************************************)
MaxPieces == 4

Fill(n) == Rep("x", n)

\* full records, a transaction whose destination bank is 4444, one stray
\* character, and markers with nothing after them
PieceHeader1  == Marker5555 \o Fill(RecLen - 4)
PieceHeader2  == Marker4444 \o Fill(RecLen - 4)
PieceData     == Marker0000 \o Fill(RecLen - 4)
PieceData4444 == Marker0000 \o Marker4444 \o Fill(RecLen - 8)

Pieces == {PieceHeader1, PieceHeader2, PieceData, PieceData4444,
           <<"x">>, Marker4444, Marker5555}

RECURSIVE Concat(_)
Concat(ps) == IF ps = <<>> THEN <<>> ELSE Head(ps) \o Concat(Tail(ps))

Buffers == {Concat(ps) : ps \in SeqsUpTo(Pieces, MaxPieces)}

\* the calculator is not running
CalcIdle ==
    /\ transactions = <<>>
    /\ calc_pc = "off"
    /\ calc_result = [kind |-> "none"]

InitSeg ==
    /\ CalcIdle
    /\ CoordIdle
    /\ DecIdle
    /\ AuditIdle
    /\ dataset \in Buffers
    /\ seg_pc = "parse"
    /\ pos = 0
    /\ header1_at = -1
    /\ branches = <<>>

NextSeg == ParseDataset \/ FindBranchStep

SpecSeg == InitSeg /\ [][NextSeg]_vars

\* C10: the ranges [branch header start, end of its last transaction) of
\* the branches found are strictly increasing in offset and pairwise
\* disjoint, and none overlaps the file header's 180-character window.
BranchStart(b) == b.header2_at
BranchEnd(b) == b.header2_at + RecLen + (Len(b.data) * RecLen)

C10_NoOverlap ==
    /\ \A i, j \in 1..Len(branches) :
          i < j => /\ BranchStart(branches[i]) < BranchStart(branches[j])
                   /\ BranchEnd(branches[i]) <= BranchStart(branches[j])
    /\ \A i \in 1..Len(branches) :
          /\ header1_at # -1
          /\ BranchStart(branches[i]) >= header1_at + RecLen
          /\ \A k \in 1..Len(branches[i].data) :
                branches[i].data[k] = BranchStart(branches[i]) + (k * RecLen)

C10_Witness ==
    /\ seg_pc = "done"
    /\ Len(branches) = 2
    /\ Len(branches[1].data) = 1
    /\ Slice(dataset, branches[1].data[1], branches[1].data[1] + 8)
         = Marker0000 \o Marker4444
    /\ BranchEnd(branches[1]) = BranchStart(branches[2])

\* parse_dataset's return value once it has returned (lines 118-132): no
\* group, or the one group of the first file header with its branches
parsed_groups ==
    IF header1_at = -1 THEN <<>>
    ELSE <<[header1_at |-> header1_at, branches |-> branches]>>

\* every offset at which the buffer holds the marker
Occurrences(data, sub) ==
    {i \in 0..(Len(data) - Len(sub)) : Slice(data, i, i + Len(sub)) = sub}

\* C11: for a buffer with no occurrence of "5555", parse_dataset returns
\* the empty list of groups (and has decoded no branch either).
C11_NoHeaderNoGroups ==
    (seg_pc = "done" /\ Occurrences(dataset, Marker5555) = {})
    => (parsed_groups = <<>> /\ branches = <<>>)

C11_Witness ==
    /\ seg_pc = "done"
    /\ Occurrences(dataset, Marker5555) = {}
    /\ Occurrences(dataset, Marker4444) # {}
    /\ Occurrences(dataset, Marker0000) # {}
    /\ Len(dataset) >= 2 * RecLen
    /\ parsed_groups = <<>>

\* the offsets of all the records decoded so far
DecodedAt ==
    (IF header1_at = -1 THEN {} ELSE {header1_at})
    \cup {branches[i].header2_at : i \in 1..Len(branches)}
    \cup UNION {{branches[i].data[k] : k \in 1..Len(branches[i].data)} :
                i \in 1..Len(branches)}

\* C12: every decoded record is a window of exactly 180 characters inside
\* the buffer; hence a marker with fewer than 180 characters from its
\* start to the end of the buffer is the start of no record.
C12_FullWindows ==
    /\ \A at \in DecodedAt :
          /\ 0 <= at
          /\ at + RecLen <= Len(dataset)
          /\ Len(Slice(dataset, at, at + RecLen)) = RecLen
    /\ \A m \in {Marker5555, Marker4444, Marker0000} :
          \A at \in Occurrences(dataset, m) :
              at + RecLen > Len(dataset) => at \notin DecodedAt

\* a file header, a branch with a transaction, then a branch marker cut
\* short by the end of the buffer: the scan reached it and dropped it
C12_Witness ==
    /\ seg_pc = "done"
    /\ header1_at # -1
    /\ Len(branches) = 1
    /\ Len(branches[1].data) = 1
    /\ \E at \in Occurrences(dataset, Marker4444) :
          /\ at >= pos
          /\ at + RecLen > Len(dataset)
          /\ Find(dataset, Marker4444, pos) = at

\* where the search for branch i's header started: after the file header
\* for the first branch, at the end of the previous branch otherwise
ScanFrom(i) ==
    IF i = 1 THEN header1_at + RecLen ELSE BranchEnd(branches[i - 1])

\* the first "4444" or "5555" at or after the end of branch b's header
\* record, -1 if there is none
FirstMarkerAfterHeader(b) ==
    LET after == {o \in Occurrences(dataset, Marker4444)
                          \cup Occurrences(dataset, Marker5555) :
                     o >= b.header2_at + RecLen}
    IN  IF after = {} THEN -1 ELSE Min(after)

\* C21 (as claimed): every transaction record of an emitted branch lies
\* entirely before the first "4444" or "5555" found in the buffer after
\* the branch's header record.
C21_Original ==
    \A i \in 1..Len(branches) :
        FirstMarkerAfterHeader(branches[i]) # -1
        => \A k \in 1..Len(branches[i].data) :
              branches[i].data[k] + RecLen
                 <= FirstMarkerAfterHeader(branches[i])

\* C21 (amended): the transactions of an emitted branch are the longest
\* run of contiguous full 180-character windows starting with "0000"
\* right after its header record, whatever markers their contents hold;
\* the next branch header starts at or after the end of that run.
C21_GroupEndsAtRunEnd ==
    \A i \in 1..Len(branches) :
        LET b == branches[i]
            run_end == b.header2_at + RecLen + (Len(b.data) * RecLen)
        IN  /\ \A k \in 1..Len(b.data) :
                  /\ b.data[k] = b.header2_at + (k * RecLen)
                  /\ b.data[k] + RecLen <= Len(dataset)
                  /\ Slice(dataset, b.data[k], b.data[k] + 4) = Marker0000
            /\ ~(/\ run_end + RecLen <= Len(dataset)
                 /\ Slice(dataset, run_end, run_end + 4) = Marker0000)
            /\ i < Len(branches) => branches[i + 1].header2_at >= run_end

\* one branch with two transactions, the second holding "4444"
C21_Witness ==
    /\ seg_pc = "done"
    /\ Len(branches) = 1
    /\ Len(branches[1].data) = 2
    /\ Slice(dataset, branches[1].data[1], branches[1].data[1] + 8)
         # Marker0000 \o Marker4444
    /\ Slice(dataset, branches[1].data[2], branches[1].data[2] + 8)
         = Marker0000 \o Marker4444

\* C26: no emitted branch header has a "5555" between the position its
\* search started from and its own start: a file-header marker lying
\* before the next branch-header marker ends the scan.
C26_StopAtFileHeader ==
    \A i \in 1..Len(branches) :
        \A o \in Occurrences(dataset, Marker5555) :
            ~(ScanFrom(i) <= o /\ o < branches[i].header2_at)

\* the scan ended on a second file header that is followed by a complete
\* branch header record
C26_Witness ==
    /\ seg_pc = "done"
    /\ Len(branches) = 1
    /\ \E o \in Occurrences(dataset, Marker5555) :
          /\ o >= pos
          /\ \E q \in Occurrences(dataset, Marker4444) :
                q > o /\ q + RecLen <= Len(dataset)
          /\ \A q \in Occurrences(dataset, Marker4444) : q >= pos => q > o

\* the segmenter with its steps taken as long as one is possible, on
\* buffers of records and truncated branch markers
FairPieces ==
    {PieceHeader1, PieceHeader2, PieceData, PieceData4444, Marker4444}

InitSegFair ==
    /\ CalcIdle
    /\ CoordIdle
    /\ DecIdle
    /\ AuditIdle
    /\ dataset \in {Concat(ps) : ps \in SeqsUpTo(FairPieces, MaxPieces)}
    /\ seg_pc = "parse"
    /\ pos = 0
    /\ header1_at = -1
    /\ branches = <<>>

SpecSegFair == InitSegFair /\ [][NextSeg]_vars /\ WF_vars(NextSeg)

\* C27: the scan cursor never decreases; an iteration that emits a branch
\* moves it forward by at least 180, to the end of the branch's last
\* consumed record or beyond; and parse_dataset returns.
C27_LinearPass ==
    /\ [][/\ pos' >= pos
          /\ branches' # branches
               => /\ pos' >= pos + RecLen
                  /\ Len(branches') = Len(branches) + 1
                  /\ pos' >= BranchEnd(branches'[Len(branches')])]_vars
    /\ <>(seg_pc = "done")

\* two branches were emitted and the cursor ended at the end of the buffer
C27_Witness ==
    /\ seg_pc = "done"
    /\ Len(branches) = 2
    /\ Len(branches[1].data) + Len(branches[2].data) = 1
    /\ pos = Len(dataset)

(***************************************************************************)
(* The transaction decoder (RecordParser.parse_data_record, lines 86-112)  *)
(***************************************************************************)
\* the slices line[a:b] of parse_data_record, in offset order
FieldOrder ==
    <<"TransactionId", "DestBank", "DestBranch", "DestAccount", "DestName",
      "TransactionCode", "ReturnCode", "Filler", "ReturnDate", "Amount",
      "Currency", "OriginatingBankNo", "OriginatingBranchNo",
      "OriginatingAccountNo", "OriginatorAccountName", "Particular",
      "Reference", "ValueDate", "SecurityCheck">>

\* (faulty variant: DestName is sliced as line[23:45], over the code)
FieldSpan_NameOverCode ==
    [TransactionId |-> <<0, 4>>, DestBank |-> <<4, 8>>,
     DestBranch |-> <<8, 11>>, DestAccount |-> <<11, 23>>,
     DestName |-> <<23, 45>>, TransactionCode |-> <<43, 45>>,
     ReturnCode |-> <<45, 47>>, Filler |-> <<47, 48>>,
     ReturnDate |-> <<48, 54>>, Amount |-> <<54, 66>>,
     Currency |-> <<66, 69>>, OriginatingBankNo |-> <<69, 73>>,
     OriginatingBranchNo |-> <<73, 76>>,
     OriginatingAccountNo |-> <<76, 88>>,
     OriginatorAccountName |-> <<88, 108>>, Particular |-> <<108, 123>>,
     Reference |-> <<123, 138>>, ValueDate |-> <<138, 144>>,
     SecurityCheck |-> <<144, 150>>]
FieldSpan ==
    [TransactionId |-> <<0, 4>>, DestBank |-> <<4, 8>>,
     DestBranch |-> <<8, 11>>, DestAccount |-> <<11, 23>>,
     DestName |-> <<23, 43>>, TransactionCode |-> <<43, 45>>,
     ReturnCode |-> <<45, 47>>, Filler |-> <<47, 48>>,
     ReturnDate |-> <<48, 54>>, Amount |-> <<54, 66>>,
     Currency |-> <<66, 69>>, OriginatingBankNo |-> <<69, 73>>,
     OriginatingBranchNo |-> <<73, 76>>,
     OriginatingAccountNo |-> <<76, 88>>,
     OriginatorAccountName |-> <<88, 108>>, Particular |-> <<108, 123>>,
     Reference |-> <<123, 138>>, ValueDate |-> <<138, 144>>,
     SecurityCheck |-> <<144, 150>>]

\* the dict parse_data_record returns: the sliced fields, and AmountInt,
\* the Amount slice stripped (TransactionDesc and FileName do not come
\* from the line's positions and are left out)
parse_data_record(l) ==
    [kind |-> "record",
     fields |-> [f \in DOMAIN FieldSpan |->
                    Slice(l, FieldSpan[f][1], FieldSpan[f][2])],
     AmountInt |-> Strip(Slice(l, FieldSpan.Amount[1], FieldSpan.Amount[2]))]

ParseDataRecord ==
    /\ dec_record = [kind |-> "none"]
    /\ line # <<>>
    /\ dec_record' = parse_data_record(line)
    /\ UNCHANGED <<line, calcVars, segVars, coordVars, auditVars>>

(***************************************************************************)
(* Specification SpecDec: the decoder applied to drawn lines               *)
(***************************************************************************)
DigitChar(n) == <<"0", "1", "2", "3", "4", "5", "6", "7", "8", "9">>[n + 1]

\* lines whose characters differ from position to position: a digit
\* pattern, the same with blank-padded names, with a zero-led amount, and
\* with a blank tail after the last decoded position
LineKinds == {"digits", "padded", "zeros", "blanktail"}
LineSteps == {1, 3, 7, 9}
LineShifts == 0..9

LineOf(kind, step, shift) ==
    [i \in 1..RecLen |->
        LET at == i - 1
            d == DigitChar(((at * step) + shift) % 10)
        IN  IF at < 4 THEN "0"
            ELSE IF kind = "padded" /\ (at \in 26..42 \/ at \in 91..107)
            THEN " "
            ELSE IF kind = "zeros" /\ at \in 54..60 THEN "0"
            ELSE IF kind = "blanktail" /\ at >= 150 THEN " "
            ELSE d]

Lines ==
    {LineOf(k, st, sh) : k \in LineKinds, st \in LineSteps,
                         sh \in LineShifts}

InitDec ==
    /\ CalcIdle
    /\ SegIdle
    /\ CoordIdle
    /\ AuditIdle
    /\ line \in Lines
    /\ dec_record = [kind |-> "none"]

NextDec == ParseDataRecord

SpecDec == InitDec /\ [][NextDec]_vars

\* concatenation of the decoded fields in offset order
RECURSIVE ConcatFields(_, _)
ConcatFields(fields, order) ==
    IF order = <<>> THEN <<>>
    ELSE fields[Head(order)] \o ConcatFields(fields, Tail(order))

\* the positions the field named f is sliced from
Positions(f) == FieldSpan[f][1]..(FieldSpan[f][2] - 1)

DecodedEnd == Max({FieldSpan[f][2] : f \in DOMAIN FieldSpan})

\* C13: the fields of a decoded transaction line, concatenated in offset
\* order, are the line's decoded part (positions 0 up to the end of
\* SecurityCheck) character for character, and every position of that
\* part belongs to exactly one field.
C13_DecoderRoundTrip ==
    dec_record.kind = "record"
    => /\ ConcatFields(dec_record.fields, FieldOrder)
            = Slice(line, 0, DecodedEnd)
       /\ {FieldOrder[k] : k \in 1..Len(FieldOrder)} = DOMAIN FieldSpan
       /\ \A at \in 0..(DecodedEnd - 1) :
             Cardinality({f \in DOMAIN FieldSpan : at \in Positions(f)}) = 1
       /\ \A f \in DOMAIN FieldSpan :
             Len(dec_record.fields[f]) = FieldSpan[f][2] - FieldSpan[f][1]

\* a decoded line with a zero-led amount and distinct neighbouring fields
C13_Witness ==
    /\ dec_record.kind = "record"
    /\ SubSeq(dec_record.fields.Amount, 1, 7) = Rep("0", 7)
    /\ dec_record.fields.Amount # Rep("0", 12)
    /\ dec_record.fields.TransactionCode # dec_record.fields.ReturnCode
    /\ dec_record.fields.DestName[1] # " "

(***************************************************************************)
(* The store and the reconciliation coordinator                            *)
(* (src/scripts/SLIPS_recreation.py).  One direction's table set is        *)
(* modelled; "branch" is the column _branch_field selects for it.          *)
(***************************************************************************)
max_retries == 3

\* Database.get_connection, line 59: isolation_level=None.  sqlite3 then
\* opens no transaction implicitly: every statement is committed as it is
\* executed, and commit()/rollback() without an explicit BEGIN do nothing.
\* (faulty variant: an implicit transaction is opened by the first write)
Autocommit_Deferred == FALSE
Autocommit == TRUE

\* the UPDATE statements of _process_single_branch (472-479 and 494-510)
\* (faulty variant: the WHERE clause compares with Id <= ?)
ApplyHeaderUpdate_UpToId(headers, w) ==
    [i \in DOMAIN headers |->
        IF i > w.id THEN headers[i]
        ELSE IF w.set_totals
        THEN [headers[i] EXCEPT !.Status = 1,
                                !.CreditTotal = w.totals.credit_total,
                                !.NumCreditItems = w.totals.credit_count,
                                !.DebitTotal = w.totals.debit_total,
                                !.NumDebitItems = w.totals.debit_count,
                                !.AccountHashTotal = w.totals.hash_total]
        ELSE [headers[i] EXCEPT !.Status = 1]]
\* (faulty variant: the totals are written, the status is left for later)
ApplyHeaderUpdate_TotalsOnly(headers, w) ==
    [headers EXCEPT ![w.id] =
        IF w.set_totals
        THEN [@ EXCEPT !.CreditTotal = w.totals.credit_total,
                       !.NumCreditItems = w.totals.credit_count,
                       !.DebitTotal = w.totals.debit_total,
                       !.NumDebitItems = w.totals.debit_count,
                       !.AccountHashTotal = w.totals.hash_total]
        ELSE [@ EXCEPT !.Status = 1]]
ApplyHeaderUpdate(headers, w) ==
    [headers EXCEPT ![w.id] =
        IF w.set_totals
        THEN [@ EXCEPT !.Status = 1,
                       !.CreditTotal = w.totals.credit_total,
                       !.NumCreditItems = w.totals.credit_count,
                       !.DebitTotal = w.totals.debit_total,
                       !.NumDebitItems = w.totals.debit_count,
                       !.AccountHashTotal = w.totals.hash_total]
        ELSE [@ EXCEPT !.Status = 1]]

RECURSIVE ApplyAll(_, _)
ApplyAll(headers, ws) ==
    IF ws = <<>> THEN headers
    ELSE ApplyAll(ApplyHeaderUpdate(headers, Head(ws)), Tail(ws))

\* SELECT Id, BranchCode ... WHERE Status = 0 AND BankCode = ? ORDER BY Id
RECURSIVE SelectPendingFrom(_, _, _)
SelectPendingFrom(headers, bank, i) ==
    IF i > Len(headers) THEN <<>>
    ELSE IF headers[i].Status = 0 /\ headers[i].BankCode = bank
         THEN <<[id |-> i, branch_code |-> headers[i].BranchCode]>>
              \o SelectPendingFrom(headers, bank, i + 1)
         ELSE SelectPendingFrom(headers, bank, i + 1)

SelectPending(headers, bank) == SelectPendingFrom(headers, bank, 1)

\* SELECT Transaction_Code, Amount, Destination_Ac_No ... WHERE <branch> = ?
RECURSIVE FetchTransactions(_, _)
FetchTransactions(rows, branch_code) ==
    IF rows = <<>> THEN <<>>
    ELSE IF Head(rows).branch = branch_code
         THEN <<Row(Head(rows).code, Head(rows).amount, Head(rows).dest_account)>>
              \o FetchTransactions(Tail(rows), branch_code)
         ELSE FetchTransactions(Tail(rows), branch_code)

\* UPDATE <prefix>_Transaction SET Transaction_Code = new WHERE
\* Transaction_Code = old (lines 161-168)
\* (faulty variant: the WHERE clause is missing)
UpdateCode_NoWhere(rows, old_code, new_code) ==
    [i \in DOMAIN rows |-> [rows[i] EXCEPT !.code = new_code]]
\* (faulty variant: the two parameters are bound in the wrong order)
UpdateCode_ParamsSwapped(rows, old_code, new_code) ==
    [i \in DOMAIN rows |->
        IF rows[i].code = new_code THEN [rows[i] EXCEPT !.code = old_code]
        ELSE rows[i]]
UpdateCode(rows, old_code, new_code) ==
    [i \in DOMAIN rows |->
        IF rows[i].code = old_code THEN [rows[i] EXCEPT !.code = new_code]
        ELSE rows[i]]

\* the loop over the mapping entries (lines 156-173); fail_at = k makes the
\* k-th executed UPDATE raise, 0 lets all succeed
\* (faulty variant: every entry is executed, whatever the unknown set)
RECURSIVE ApplyMapping_AllEntries(_, _, _, _, _)
ApplyMapping_AllEntries(rows, entries, unknown_codes, executed, fail_at) ==
    IF entries = <<>>
    THEN [ok |-> TRUE, rows |-> rows, executed |-> executed]
    ELSE LET old_code == Head(entries).old
             new_code == Head(entries).new
         IN  IF old_code # <<>> /\ new_code # <<>>
             THEN IF executed + 1 = fail_at
                  THEN [ok |-> FALSE, rows |-> rows, executed |-> executed]
                  ELSE ApplyMapping_AllEntries(
                           UpdateCode(rows, old_code, new_code),
                           Tail(entries), unknown_codes, executed + 1,
                           fail_at)
             ELSE ApplyMapping_AllEntries(rows, Tail(entries), unknown_codes,
                                          executed, fail_at)
RECURSIVE ApplyMapping(_, _, _, _, _)
ApplyMapping(rows, entries, unknown_codes, executed, fail_at) ==
    IF entries = <<>>
    THEN [ok |-> TRUE, rows |-> rows, executed |-> executed]
    ELSE LET old_code == Head(entries).old
             new_code == Head(entries).new
         IN  IF old_code # <<>> /\ new_code # <<>> /\ old_code \in unknown_codes
             THEN IF executed + 1 = fail_at
                  THEN [ok |-> FALSE, rows |-> rows, executed |-> executed]
                  ELSE ApplyMapping(UpdateCode(rows, old_code, new_code),
                                    Tail(entries), unknown_codes, executed + 1,
                                    fail_at)
             ELSE ApplyMapping(rows, Tail(entries), unknown_codes, executed,
                               fail_at)

\* CodeMappingService.update_transaction_codes_in_database (lines 134-186).
\* BEGIN IMMEDIATE needs the write lock: it fails after the busy timeout
\* when another connection holds uncommitted writes.
\* executed: the UPDATE statements that had run when the call returned.
\* (faulty variant of the except branch: what was executed stays)
RolledBack_Kept(before, after) == after
\* line 180: conn.rollback() ends the transaction opened by BEGIN IMMEDIATE
RolledBack(before, after) == before

update_transaction_codes_in_database(rows, unknown_codes, in) ==
    IF mapping = <<>> THEN [ok |-> FALSE, rows |-> rows, executed |-> 0]
    ELSE IF ~in.update_conn_ok
    THEN [ok |-> FALSE, rows |-> rows, executed |-> 0]
    ELSE IF uncommitted # <<>>
    THEN [ok |-> FALSE, rows |-> rows, executed |-> 0]
    ELSE LET r == ApplyMapping(rows, mapping, unknown_codes, 0, in.fail_at)
         IN  IF r.ok
             THEN [ok |-> TRUE, rows |-> r.rows,                \* commit
                   executed |-> r.executed]
             ELSE [ok |-> FALSE, rows |-> RolledBack(rows, r.rows),
                   executed |-> r.executed]

\* lines 264-270: the mapping entries whose old code is unknown
Applicable(unknown_codes) ==
    SelectSeq(mapping, LAMBDA m : m.old \in unknown_codes)

\* lines 279-284: input(...).strip().lower() is "yes" or "y"
Lower(c) ==
    CASE c = "Y" -> "y" [] c = "E" -> "e" [] c = "S" -> "s"
      [] c = "N" -> "n" [] c = "O" -> "o" [] OTHER -> c

LowerText(t) == [i \in DOMAIN t |-> Lower(t[i])]

AnswerYes == <<"y", "e", "s">>
AnswerY == <<"y">>
AnswerNo == <<"n", "o">>

\* (faulty variant: every answer but "no" is taken as consent)
Confirmed_UnlessNo(choice) == LowerText(Strip(choice)) # AnswerNo
Confirmed(choice) == LowerText(Strip(choice)) \in {AnswerYes, AnswerY}

\* TransactionAnalyzer.calculate_totals_and_hash (lines 206-341) on the
\* fetched rows of a branch.  kind: "totals", "REFETCH_NEEDED" or "exit"
\* (sys.exit(1)); rows: the transaction table afterwards; adverse: an input
\* that was consulted was a refusal or a failure.
NoUpdate == [called |-> FALSE]

UpdateOutcome(u) == [called |-> TRUE, ok |-> u.ok, executed |-> u.executed]

\* TransactionAnalyzer.calculate_totals_and_hash (lines 206-341): the
\* analysis, then the handling of the unknown codes (lines 257-335)
\* (faulty variant: the totals of the known codes are returned whatever
\* was collected)
calculate_totals_and_hash_IgnoresUnknown(fetched, branch_code, in) ==
    [kind |-> "totals", totals |-> Totals(AnalyzeLoop(fetched, EmptyAcc)),
     rows |-> tx, adverse |-> FALSE, asked |-> FALSE, update |-> NoUpdate]
calculate_totals_and_hash(fetched, branch_code, in) ==
    LET acc == AnalyzeLoop(fetched, EmptyAcc)
    IN  IF acc.unknown_codes = {}
        THEN [kind |-> "totals", totals |-> Totals(acc), rows |-> tx,
              adverse |-> FALSE, asked |-> FALSE, update |-> NoUpdate]
        ELSE IF Applicable(acc.unknown_codes) = <<>>
        THEN [kind |-> "exit", rows |-> tx, adverse |-> FALSE,
              asked |-> FALSE, update |-> NoUpdate]
        ELSE IF ~Confirmed(in.choice)
        THEN [kind |-> "exit", rows |-> tx, adverse |-> TRUE,
              asked |-> TRUE, update |-> NoUpdate]
        ELSE LET u == update_transaction_codes_in_database(
                          tx, acc.unknown_codes, in)
             IN  IF ~u.ok
                 THEN [kind |-> "exit", rows |-> u.rows, adverse |-> TRUE,
                       asked |-> TRUE, update |-> UpdateOutcome(u)]
                 ELSE IF branch_code = "" \/ in.refetch_conn_ok
                 THEN [kind |-> "REFETCH_NEEDED", rows |-> u.rows,
                       adverse |-> FALSE, asked |-> TRUE, update |-> UpdateOutcome(u)]
                 ELSE [kind |-> "exit", rows |-> u.rows, adverse |-> TRUE,
                       asked |-> TRUE, update |-> UpdateOutcome(u)]

NoWrite == [id |-> 0, set_totals |-> FALSE]

\* lines 450-453: the branch's connection cannot be established
\* (faulty variant: the caller is told to fetch again)
BranchConnFailed_Refetch ==
    [ret |-> "REFETCH_NEEDED", write |-> NoWrite, rows |-> tx,
     adverse |-> TRUE, remapped |-> FALSE, asked |-> FALSE,
     update |-> NoUpdate]
BranchConnFailed ==
    [ret |-> "False", write |-> NoWrite, rows |-> tx, adverse |-> TRUE,
     remapped |-> FALSE, asked |-> FALSE, update |-> NoUpdate]

\* BranchService._process_single_branch (lines 443-523).  ret: "True",
\* "REFETCH_NEEDED", "False" or "exit"; write: the header UPDATE executed on
\* the main cursor (id 0: none).
process_single_branch(b, in) ==
    IF ~in.branch_conn_ok
    THEN BranchConnFailed
    ELSE LET fetched == FetchTransactions(tx, b.branch_code)
         IN  IF fetched = <<>>
             THEN [ret |-> "True",
                   write |-> [id |-> b.id, set_totals |-> FALSE],
                   rows |-> tx, adverse |-> FALSE, remapped |-> FALSE,
                   asked |-> FALSE, update |-> NoUpdate]
             ELSE LET r == calculate_totals_and_hash(fetched, b.branch_code, in)
                  IN  IF r.kind = "REFETCH_NEEDED"
                      THEN [ret |-> "REFETCH_NEEDED", write |-> NoWrite,
                            rows |-> r.rows, adverse |-> r.adverse,
                            remapped |-> TRUE, asked |-> r.asked,
                            update |-> r.update]
                      ELSE IF r.kind = "exit"
                      THEN [ret |-> "exit", write |-> NoWrite,
                            rows |-> r.rows, adverse |-> r.adverse,
                            remapped |-> r.rows # tx, asked |-> r.asked,
                            update |-> r.update]
                      ELSE [ret |-> "True",
                            write |-> [id |-> b.id, set_totals |-> TRUE,
                                       totals |-> r.totals],
                            rows |-> tx, adverse |-> FALSE,
                            remapped |-> FALSE, asked |-> FALSE,
                            update |-> NoUpdate]

\* what the environment decides during one branch: whether each connection
\* can be established, the operator's answer, a failing UPDATE statement
Choices == {AnswerYes, <<" ", "Y">>, AnswerNo, <<>>}

AllFine ==
    [branch_conn_ok |-> TRUE, choice |-> AnswerYes, update_conn_ok |-> TRUE,
     refetch_conn_ok |-> TRUE, fail_at |-> 0]

\* The first refusal or failure that is consulted ends the branch's
\* processing, so inputs with at most one of them give every outcome.
Inputs ==
    {[AllFine EXCEPT !.choice = c] : c \in Choices}
    \cup {[AllFine EXCEPT !.branch_conn_ok = FALSE],
          [AllFine EXCEPT !.update_conn_ok = FALSE],
          [AllFine EXCEPT !.refetch_conn_ok = FALSE],
          [AllFine EXCEPT !.fail_at = 1],
          [AllFine EXCEPT !.fail_at = 2]}

\* line 362/371-378: the retry loop goes on after REFETCH_NEEDED while
\* attempts remain
\* (faulty variant: one attempt too many)
AttemptsLeft_OffByOne(r) == r <= max_retries
AttemptsLeft(r) == r + 1 < max_retries

\* update_branch_status_and_totals is called for a bank
\* (faulty variant: the run first sets the bank's branches to Pending)
StartRun_Reopens(bank) ==
    /\ pc \in {"idle", "returned", "exited"}
    /\ pc' = "pass"
    /\ bank_code' = bank
    /\ retry' = 0
    /\ result' = "none"
    /\ pending' = <<>>
    /\ idx' = 0
    /\ runs' = runs + 1
    /\ passes' = 0
    /\ remaps' = 0
    /\ pass_result' = "none"
    /\ pass_start' = {}
    /\ run_ok' = TRUE
    /\ run_bh' = bh
    /\ run_tx' = tx
    /\ answer' = [asked |-> FALSE]
    /\ conn_failed' = FALSE
    /\ last_update' = [called |-> FALSE]
    /\ bh' = [i \in DOMAIN bh |->
                IF bh[i].BankCode = bank THEN [bh[i] EXCEPT !.Status = 0]
                ELSE bh[i]]
    /\ UNCHANGED <<tx, mapping, uncommitted, calcVars, segVars, decVars,
                   auditVars>>
StartRun(bank) ==
    /\ pc \in {"idle", "returned", "exited"}
    /\ pc' = "pass"
    /\ bank_code' = bank
    /\ retry' = 0
    /\ result' = "none"
    /\ pending' = <<>>
    /\ idx' = 0
    /\ runs' = runs + 1
    /\ passes' = 0
    /\ remaps' = 0
    /\ pass_result' = "none"
    /\ pass_start' = {}
    /\ run_ok' = TRUE
    /\ run_bh' = bh
    /\ run_tx' = tx
    /\ answer' = [asked |-> FALSE]
    /\ conn_failed' = FALSE
    /\ last_update' = [called |-> FALSE]
    /\ UNCHANGED <<storeVars, calcVars, segVars, decVars, auditVars>>

\* _process_branches_with_refetch up to its for loop (lines 384-409)
BeginPassWith(outcomes) ==
    /\ pc = "pass"
    /\ passes' = passes + 1
    /\ \E conn_ok \in outcomes :
          IF ~conn_ok
          THEN /\ pc' = "returned"
               /\ result' = "False"
               /\ pass_result' = "False"
               /\ run_ok' = FALSE
               /\ conn_failed' = TRUE
               /\ pass_start' = {}
               /\ UNCHANGED <<pending, idx>>
          ELSE LET p == SelectPending(bh, bank_code)
               IN  /\ pass_start' = {i \in DOMAIN bh : bh[i].Status = 0}
                   /\ run_ok' = run_ok
                   /\ UNCHANGED conn_failed
                   /\ IF p = <<>>
                      THEN /\ pc' = "returned"
                           /\ result' = "True"
                           /\ pass_result' = "COMPLETE"
                           /\ UNCHANGED <<pending, idx>>
                      ELSE /\ pc' = "branch"
                           /\ pending' = p
                           /\ idx' = 1
                           /\ pass_result' = "none"
                           /\ UNCHANGED result
    /\ answer' = [asked |-> FALSE]
    /\ last_update' = [called |-> FALSE]
    /\ UNCHANGED <<storeVars, bank_code, retry, runs, remaps, run_bh, run_tx,
                   calcVars, segVars, decVars, auditVars>>

BeginPass == BeginPassWith(BOOLEAN)

\* one iteration of the pass's for loop (lines 412-425), with what follows
\* in the retry loop when the pass returns (lines 367-378)
ProcessBranchWith(inputs) ==
    /\ pc = "branch"
    /\ idx <= Len(pending)
    /\ \E in \in inputs :
          \E r \in {process_single_branch(pending[idx], in)} :
              /\ tx' = r.rows
              /\ last_update' = r.update
              /\ run_ok' = (run_ok /\ ~r.adverse)
              /\ answer' = IF r.asked
                           THEN [asked |-> TRUE, choice |-> in.choice]
                           ELSE [asked |-> FALSE]
              /\ conn_failed' = (conn_failed \/ ~in.branch_conn_ok)
              /\ remaps' = IF r.remapped THEN remaps + 1 ELSE remaps
              /\ CASE r.ret = "True" ->
                        /\ IF Autocommit
                           THEN /\ bh' = ApplyHeaderUpdate(bh, r.write)
                                /\ UNCHANGED uncommitted
                           ELSE /\ uncommitted' = Append(uncommitted, r.write)
                                /\ UNCHANGED bh
                        /\ idx' = idx + 1
                        /\ UNCHANGED <<pc, retry, result, pass_result>>
                   [] r.ret = "REFETCH_NEEDED" ->
                        /\ uncommitted' = <<>>                  \* rollback
                        /\ pass_result' = "REFETCH_NEEDED"
                        /\ retry' = retry + 1
                        /\ IF AttemptsLeft(retry)
                           THEN pc' = "pass" /\ UNCHANGED result
                           ELSE pc' = "returned" /\ result' = "False"
                        /\ UNCHANGED <<bh, idx>>
                   [] r.ret = "False" ->
                        /\ uncommitted' = <<>>                  \* rollback
                        /\ pass_result' = "False"
                        /\ pc' = "returned"
                        /\ result' = "False"
                        /\ UNCHANGED <<bh, idx, retry>>
                   [] r.ret = "exit" ->
                        /\ uncommitted' = <<>>     \* closed uncommitted
                        /\ pass_result' = "exit"
                        /\ pc' = "exited"
                        /\ UNCHANGED <<bh, idx, retry, result>>
    /\ UNCHANGED <<mapping, bank_code, pending, runs, passes, pass_start,
                   run_bh, run_tx, calcVars, segVars, decVars, auditVars>>

ProcessBranch == ProcessBranchWith(Inputs)

\* the for loop is exhausted: commit, COMPLETE (lines 427-429, 369-370)
EndPass ==
    /\ pc = "branch"
    /\ idx > Len(pending)
    /\ bh' = ApplyAll(bh, uncommitted)
    /\ uncommitted' = <<>>
    /\ pass_result' = "COMPLETE"
    /\ pc' = "returned"
    /\ result' = "True"
    /\ UNCHANGED <<tx, mapping, bank_code, retry, pending, idx, runs, passes,
                   remaps, pass_start, run_ok, run_bh, run_tx, answer,
                   conn_failed, last_update, calcVars, segVars, decVars,
                   auditVars>>

(***************************************************************************)
(* Specification Spec: reconciliation runs over a drawn store              *)
(***************************************************************************)
MaxBranches == 2
MaxTx == 2
MaxRuns == 2

BankA == "7010"
BankB == "7135"
Banks == {BankA, BankB}

BankOf(i) == IF i <= 2 THEN BankA ELSE BankB
BranchCodeOf(i) == IF i % 2 = 1 THEN "001" ELSE "002"

\* a branch header as ingestion leaves it: Pending, totals as in the file
IngestedHeader(i, file_total) ==
    [BankCode |-> BankOf(i), BranchCode |-> BranchCodeOf(i), Status |-> 0,
     CreditTotal |-> file_total, NumCreditItems |-> file_total,
     DebitTotal |-> file_total, NumDebitItems |-> file_total,
     AccountHashTotal |-> file_total]

FileTotals == {77}

StoreRow(c, a, b) ==
    [code |-> c, amount |-> a, dest_account |-> Acct123, branch |-> b]

\* the transaction rows a store is drawn from, in a fixed order
StoreRowList ==
    <<StoreRow(Code21, Amt10000, "001"), StoreRow(Code21, Amt10000, "002"),
      StoreRow(Code23, Amt5000, "001"), StoreRow(Code23, Amt5000, "002"),
      StoreRow(Code99, Amt10000, "001"), StoreRow(Code99, Amt10000, "002"),
      StoreRow(Code99, Rep("0", 12), "001"), StoreRow(Code99, Rep("0", 12), "002"),
      StoreRow(Code98, Amt5000, "001"), StoreRow(Code98, Amt5000, "002")>>

\* tables of at most MaxTx rows; the sums and updates do not depend on the
\* order of the rows, so one order per multiset of rows is drawn
StoreTables ==
    UNION {{[i \in 1..k |-> StoreRowList[f[i]]] :
              f \in {g \in [1..k -> 1..Len(StoreRowList)] :
                        \A i, j \in 1..k : i < j => g[i] <= g[j]}} :
           k \in 0..MaxTx}

Entry(o, n) == [old |-> o, new |-> n]

MappingTables ==
    {<<>>,
     <<Entry(Code99, Code21), Entry(Code98, Code23)>>,
     <<Entry(Code99, Code98), Entry(Code98, Code97), Entry(Code97, Code21)>>}

Init ==
    /\ CalcIdle
    /\ SegIdle
    /\ DecIdle
    /\ AuditIdle
    /\ \E file_total \in FileTotals :
          bh = [i \in 1..MaxBranches |-> IngestedHeader(i, file_total)]
    /\ tx \in StoreTables
    /\ mapping \in MappingTables
    /\ uncommitted = <<>>
    /\ pc = "idle"
    /\ bank_code = ""
    /\ retry = 0
    /\ pending = <<>>
    /\ idx = 0
    /\ result = "none"
    /\ runs = 0
    /\ passes = 0
    /\ remaps = 0
    /\ pass_result = "none"
    /\ pass_start = {}
    /\ run_ok = TRUE
    /\ run_bh = <<>>
    /\ run_tx = <<>>
    /\ answer = [asked |-> FALSE]
    /\ conn_failed = FALSE
    /\ last_update = [called |-> FALSE]

Next ==
    \/ \E bank \in Banks : runs < MaxRuns /\ StartRun(bank)
    \/ BeginPass
    \/ ProcessBranch
    \/ EndPass

Spec == Init /\ [][Next]_vars

(***************************************************************************)
(* Specification SpecHeal: one run for a bank whose branches can all be    *)
(* healed: every unknown code has a mapping entry to a known code, every   *)
(* connection is established, the operator answers yes.                    *)
(***************************************************************************)
\* as many branches as the retry loop has attempts
HealBranches == max_retries

HealBranchCode(i) == <<"001", "002", "003", "004">>[i]

HealMapping ==
    <<Entry(Code99, Code21), Entry(Code98, Code23), Entry(Code97, Code21)>>

\* what a branch may hold: nothing, or one row with a known or unknown code
HealRows(i) ==
    {<<>>} \cup {<<StoreRow(c, Amt10000, HealBranchCode(i))>> :
                    c \in {Code21, Code99, Code98, Code97}}

RECURSIVE HealTable(_, _)
HealTable(f, i) ==
    IF i > HealBranches THEN <<>> ELSE f[i] \o HealTable(f, i + 1)

InitHeal ==
    /\ CalcIdle
    /\ SegIdle
    /\ DecIdle
    /\ AuditIdle
    /\ \E file_total \in FileTotals :
          bh = [i \in 1..HealBranches |->
                   [IngestedHeader(i, file_total)
                       EXCEPT !.BankCode = BankA,
                              !.BranchCode = HealBranchCode(i)]]
    /\ \E f \in [1..HealBranches -> UNION {HealRows(i) :
                                             i \in 1..HealBranches}] :
          /\ \A i \in 1..HealBranches : f[i] \in HealRows(i)
          /\ tx = HealTable(f, 1)
    /\ mapping = HealMapping
    /\ uncommitted = <<>>
    /\ pc = "idle"
    /\ bank_code = ""
    /\ retry = 0
    /\ pending = <<>>
    /\ idx = 0
    /\ result = "none"
    /\ runs = 0
    /\ passes = 0
    /\ remaps = 0
    /\ pass_result = "none"
    /\ pass_start = {}
    /\ run_ok = TRUE
    /\ run_bh = <<>>
    /\ run_tx = <<>>
    /\ answer = [asked |-> FALSE]
    /\ conn_failed = FALSE
    /\ last_update = [called |-> FALSE]

NextHeal ==
    \/ runs = 0 /\ StartRun(BankA)
    \/ BeginPassWith({TRUE})
    \/ ProcessBranchWith({AllFine})
    \/ EndPass

SpecHeal == InitHeal /\ [][NextHeal]_vars

(***************************************************************************)
(* Claims about the reconciliation coordinator (checked under Spec)        *)
(***************************************************************************)
HeaderTotals(h) ==
    [credit_total |-> h.CreditTotal, credit_count |-> h.NumCreditItems,
     debit_total |-> h.DebitTotal, debit_count |-> h.NumDebitItems,
     hash_total |-> h.AccountHashTotal]

RunEnded == pc \in {"returned", "exited"}

\* C1 (as claimed): once a pass has returned REFETCH_NEEDED, every branch
\* that was Pending in the store when the pass started is still Pending in
\* the store (the header writes made earlier in the pass are rolled back).
C1_PassRolledBack ==
    pass_result = "REFETCH_NEEDED" =>
        \A i \in pass_start : bh[i].Status = 0

\* C2: a pending branch of the run's bank whose unknown codes all have a
\* mapping entry old->new with new in the code table, the operator
\* confirming, every connection established and no other pending branch of
\* the bank having unknown codes: the run returns True after exactly one
\* remap (two passes), the branch is Reconciled and its stored totals are
\* those of its rows with each unknown code replaced by its new code.
UnknownOf(rows, branch_code) ==
    AnalyzeLoop(FetchTransactions(rows, branch_code), EmptyAcc).unknown_codes

MappedTo(c) ==
    LET hits == {k \in 1..Len(mapping) : mapping[k].old = c}
    IN  IF hits = {} THEN <<>> ELSE mapping[Min(hits)].new

CarryingNewCodes(rows, U) ==
    [i \in DOMAIN rows |->
        IF rows[i].code \in U THEN [rows[i] EXCEPT !.code = MappedTo(@)]
        ELSE rows[i]]

HealableAlone(b) ==
    /\ run_bh[b].Status = 0
    /\ run_bh[b].BankCode = bank_code
    /\ UnknownOf(run_tx, run_bh[b].BranchCode) # {}
    /\ \A c \in UnknownOf(run_tx, run_bh[b].BranchCode) :
          MappedTo(c) \in DOMAIN transaction_codes
    /\ \A i \in 1..Len(run_tx) :
          run_tx[i].branch = run_bh[b].BranchCode
          => run_tx[i].code = CodeStr(run_tx[i].code)
    /\ \A o \in DOMAIN run_bh :
          (o # b /\ run_bh[o].Status = 0 /\ run_bh[o].BankCode = bank_code)
          => UnknownOf(run_tx, run_bh[o].BranchCode) = {}

AsIfNewCodes(b) ==
    Totals(AnalyzeLoop(
        FetchTransactions(
            CarryingNewCodes(run_tx, UnknownOf(run_tx, run_bh[b].BranchCode)),
            run_bh[b].BranchCode),
        EmptyAcc))

C3_Idempotent ==
    \A b \in DOMAIN run_bh :
        run_bh[b].Status = 1 => bh[b] = run_bh[b]

C3_Witness ==
    /\ runs = 2
    /\ pc = "returned"
    /\ result = "True"
    /\ run_tx = tx
    /\ \E b, o \in DOMAIN run_bh :
          /\ run_bh[b].Status = 1
          /\ run_bh[b].BankCode = bank_code
          /\ run_bh[b].CreditTotal = 10000
          /\ UnknownOf(tx, run_bh[b].BranchCode) = {}
          /\ bh[b] = run_bh[b]
          /\ run_bh[o].Status = 0
          /\ bh[o].Status = 1
          /\ bh[o].DebitTotal = 5000

\* C4: a run makes at most 3 passes, and when the third pass returns
\* REFETCH_NEEDED the run has returned False.
C4_BoundedHealing ==
    /\ passes <= 3
    /\ (passes = 3 /\ pass_result = "REFETCH_NEEDED")
       => (pc = "returned" /\ result = "False")

C4_Witness ==
    /\ pc = "returned"
    /\ passes = 3
    /\ remaps = 3
    /\ pass_result = "REFETCH_NEEDED"
    /\ result = "False"

\* C14 (as claimed): when the run has aborted on a branch whose unknown
\* codes have no mapping entry, no branch that was Pending when the run
\* started is Reconciled in the store.
NoApplicableAbort ==
    /\ pc = "exited"
    /\ idx \in 1..Len(pending)
    /\ UnknownOf(tx, pending[idx].branch_code) # {}
    /\ Applicable(UnknownOf(tx, pending[idx].branch_code)) = <<>>

C14_NoPartialSuccess ==
    NoApplicableAbort
    => \A i \in DOMAIN run_bh : run_bh[i].Status = 0 => bh[i].Status = 0

\* C15: a step changes a transaction row only when the prompt of that
\* branch was answered "yes" or "y" (whatever the case and the blanks
\* around it); a prompt answered otherwise ends the run by sys.exit with
\* every transaction row as it was.
IsYes(a) == a.asked /\ a.choice \in {AnswerYes, <<" ", "Y">>}

C15_ConsentRequired ==
    [][/\ tx' # tx => IsYes(answer')
       /\ (answer'.asked /\ ~IsYes(answer'))
            => (pc' = "exited" /\ tx' = tx)]_vars

\* a remap was confirmed in the first pass and the prompt of the second
\* pass was answered with an empty line
C15_Witness ==
    /\ pc = "exited"
    /\ passes = 2
    /\ remaps = 1
    /\ answer = [asked |-> TRUE, choice |-> <<>>]
    /\ tx # run_tx

\* C16: a mapping update changes only the code column, and only on rows
\* whose code before the update is in the unknown set passed in (that of
\* the branch being processed) and is the old code of a mapping entry;
\* rows with a code outside that set keep it.
C16_RemapRestricted ==
    [][tx' # tx
       => /\ pc = "branch"
          /\ idx \in 1..Len(pending)
          /\ Len(tx') = Len(tx)
          /\ \A i \in 1..Len(tx) :
                LET U == UnknownOf(tx, pending[idx].branch_code)
                IN  /\ [tx'[i] EXCEPT !.code = tx[i].code] = tx[i]
                    /\ tx'[i].code # tx[i].code
                         => /\ tx[i].code \in U
                            /\ \E k \in 1..Len(mapping) :
                                  mapping[k].old = tx[i].code
                    /\ tx[i].code \notin U => tx'[i].code = tx[i].code]_vars

\* after one remap: a row of the branch carries its new code, and a row of
\* another branch keeps a code that has a mapping entry of its own but was
\* not in the unknown set
C16_Witness ==
    /\ remaps = 1
    /\ pass_result = "REFETCH_NEEDED"
    /\ \E i, j \in 1..Len(tx) :
          /\ run_tx[i].code = Code99
          /\ tx[i].code = Code21
          /\ run_tx[j].code = Code98
          /\ tx[j].code = Code98
          /\ MappedTo(Code98) # <<>>

\* C17 (as claimed): after a pass that completes, every branch of the bank
\* that was Pending when it started and has no transactions is Reconciled
\* with all five stored totals zero.
ZeroTotals ==
    [credit_total |-> 0, credit_count |-> 0, debit_total |-> 0,
     debit_count |-> 0, hash_total |-> 0]

C17_EmptyBranchZeroTotals ==
    pass_result = "COMPLETE"
    => \A i \in pass_start :
          (bh[i].BankCode = bank_code
           /\ FetchTransactions(tx, bh[i].BranchCode) = <<>>)
          => (bh[i].Status = 1 /\ HeaderTotals(bh[i]) = ZeroTotals)

\* C18: no step takes a branch header from Reconciled back to Pending.
C18_StatusMonotonic ==
    [][\A i \in DOMAIN bh : bh[i].Status = 1 => bh'[i].Status = 1]_vars

\* a branch reconciled by the first run is still Reconciled after the
\* second run has aborted
C18_Witness ==
    /\ runs = 2
    /\ pc = "exited"
    /\ \E i \in DOMAIN bh :
          /\ run_bh[i].Status = 1
          /\ run_bh[i].BankCode = bank_code
          /\ bh[i].Status = 1

\* C20: once a pass connection or a branch connection of the run could not
\* be established, the run has returned False, whatever attempts were left:
\* no pass is running or about to start.
C20_NoRetryOnConnFailure ==
    conn_failed
    => (pc = "returned" /\ result = "False" /\ pass_result = "False")

\* a branch connection fails in the second attempt, with one attempt left
C20_Witness ==
    /\ conn_failed
    /\ passes = 2
    /\ retry = 1
    /\ remaps = 1
    /\ pass_start # {}
    /\ pc = "returned"
    /\ result = "False"

\* the branch the for loop of the running pass is about to process
AtBranch == pc = "branch" /\ idx <= Len(pending)

CurrentUnknown == UnknownOf(tx, pending[idx].branch_code)

C23_TotalsWithStatus ==
    [][\A i \in DOMAIN bh :
          bh'[i] # bh[i]
          => /\ bh[i].Status = 0
             /\ bh'[i].Status = 1
             /\ FetchTransactions(tx, bh[i].BranchCode) # <<>>
                => HeaderTotals(bh'[i]) =
                     Totals(AnalyzeLoop(
                         FetchTransactions(tx, bh[i].BranchCode), EmptyAcc))
      ]_vars

\* a branch with a credit and a debit transaction was reconciled while the
\* pass goes on
C23_Witness ==
    /\ pc = "branch"
    /\ idx = 2
    /\ bh[pending[1].id].Status = 1
    /\ bh[pending[1].id].NumCreditItems = 1
    /\ bh[pending[1].id].NumDebitItems = 1
    /\ bh[pending[1].id].CreditTotal # bh[pending[1].id].DebitTotal

\* C24: processing a branch whose unknown-code set is not empty never
\* writes totals: the step ends the pass with REFETCH_NEEDED, and then the
\* operator had confirmed and the mapping update had returned True, or it
\* ends the process (or, when the branch's connection cannot be
\* established, the run); no header is touched.
C24_UnknownNeverTotals ==
    [][(AtBranch /\ CurrentUnknown # {})
       => /\ bh' = bh
          /\ pass_result' \in {"REFETCH_NEEDED", "exit", "False"}
          /\ pass_result' = "False" => conn_failed'
          /\ pass_result' = "REFETCH_NEEDED"
             => (IsYes(answer') /\ last_update'.called /\ last_update'.ok)
      ]_vars

\* a branch with an unknown code was answered "no" in the second pass
C24_Witness ==
    /\ pc = "exited"
    /\ passes = 2
    /\ remaps = 1
    /\ answer = [asked |-> TRUE, choice |-> AnswerNo]
    /\ UnknownOf(tx, pending[idx].branch_code) # {}

\* C25: a mapping update that returns False leaves every transaction row
\* with the code it had before the call, whatever number of its UPDATE
\* statements had run, and ends the process.
C25_AllOrNothing ==
    [][(last_update'.called /\ ~last_update'.ok)
       => (tx' = tx /\ pc' = "exited" /\ bh' = bh)]_vars

\* the second UPDATE statement failed after the first had changed a row
C25_Witness ==
    /\ last_update = [called |-> TRUE, ok |-> FALSE, executed |-> 1]
    /\ pc = "exited"
    /\ \E i \in DOMAIN tx :
          /\ tx[i].code \in UnknownOf(tx, pending[idx].branch_code)
          /\ mapping[1].old = tx[i].code

\* the mapping has an entry for the code c
HasMappingEntry(c) == \E k \in 1..Len(mapping) : mapping[k].old = c

\* C30 (as claimed): after a mapping update that returned True, every row
\* whose code was an unknown code c with an entry c -> n carries n, also
\* when n is itself an unknown code with an entry.
C30_SingleSubstitution ==
    [][(AtBranch /\ last_update'.called /\ last_update'.ok)
       => \A i \in DOMAIN tx :
             (tx[i].code \in CurrentUnknown /\ HasMappingEntry(tx[i].code))
             => tx'[i].code = MappedTo(tx[i].code)]_vars


\* what calculate_totals_and_hash finds for the rows the store now holds
\* for the branch of header i
CurrentAnalysis(i) ==
    AnalyzeLoop(FetchTransactions(tx, bh[i].BranchCode), EmptyAcc)

\* C31: in every state of the store that reconciliation runs reach, a
\* Reconciled branch with at least one transaction holds the totals that
\* calculate_totals_and_hash returns for the rows the store now has for
\* it (and the call does return totals: no code of these rows is unknown),
\* whether the runs retried, remapped codes, returned False or exited.
C31_ReconciledTotalsCurrent ==
    \A i \in DOMAIN bh :
        (bh[i].Status = 1 /\ FetchTransactions(tx, bh[i].BranchCode) # <<>>)
        => /\ CurrentAnalysis(i).unknown_codes = {}
           /\ HeaderTotals(bh[i]) = Totals(CurrentAnalysis(i))

\* a mapping update of the running run has changed the code of a row of a
\* branch that the run had already Reconciled, and the run goes on
C31_Witness ==
    /\ pc = "pass"
    /\ remaps = 1
    /\ \E i \in DOMAIN bh, j \in 1..Len(tx) :
          /\ bh[i].Status = 1
          /\ run_bh[i].Status = 0
          /\ tx[j].branch = bh[i].BranchCode
          /\ tx[j].code # run_tx[j].code

\* ---- healing (checked under SpecHeal) ----
\* The run is one sequential call: it goes on until it returns or exits,
\* so "eventually" is its final result together with the finiteness of
\* its steps.
PendingAtStart ==
    {i \in DOMAIN run_bh :
        run_bh[i].Status = 0 /\ run_bh[i].BankCode = bank_code}

\* the distinct unknown codes of the branches Pending when the run started
DistinctUnknown ==
    UNION {UnknownOf(run_tx, run_bh[i].BranchCode) : i \in PendingAtStart}

\* every unknown code of the Pending branches has a mapping entry whose new
\* code is in the code table; every prompt was confirmed and every
\* connection established
HealableRun ==
    /\ runs = 1
    /\ run_ok
    /\ \A c \in DistinctUnknown : MappedTo(c) \in DOMAIN transaction_codes

Healed ==
    /\ pc = "returned"
    /\ result = "True"
    /\ \A i \in DOMAIN bh : bh[i].BankCode = bank_code => bh[i].Status = 1

\* what strictly grows with every step of a run, in lexicographic order
RunRank ==
    <<runs, passes + retry, IF RunEnded THEN 1 ELSE 0, idx>>

RECURSIVE LexLess(_, _)
LexLess(a, b) ==
    IF a = <<>> THEN FALSE
    ELSE \/ Head(a) < Head(b)
         \/ Head(a) = Head(b) /\ LexLess(Tail(a), Tail(b))

\* C29 (as claimed): a run over healable branches, with every prompt
\* confirmed and the store reachable, ends by returning True with all the
\* bank's branches Reconciled, whatever the number of Pending branches and
\* of distinct unknown codes.
C29_Original == (RunEnded /\ HealableRun) => Healed

\* What does hold of the healing: the run ends healed when fewer distinct
\* unknown codes occur in the bank's Pending branches than the retry loop
\* has attempts (at most two), and the run does end: each step raises a
\* rank that is bounded.
HealsWithinBudget ==
    /\ []((RunEnded /\ HealableRun
             /\ Cardinality(DistinctUnknown) < max_retries) => Healed)
    /\ [](/\ runs <= 1
          /\ passes <= max_retries
          /\ retry <= max_retries
          /\ idx <= HealBranches + 1
          /\ ~RunEnded => pc \in {"idle", "pass", "branch"})
    /\ [][LexLess(RunRank, RunRank')]_vars

\* two branches with different unknown codes were healed in two passes and
\* the third pass reconciled all three branches
HealedInThreePasses ==
    /\ Healed
    /\ HealableRun
    /\ Cardinality(DistinctUnknown) = 2
    /\ passes = 3
    /\ remaps = 2
    /\ Len(tx) = 3

(***************************************************************************)
(* BranchInspector.check_and_filter (lines 535-595)                        *)
(***************************************************************************)
\* the WHERE clause of non_zero_query (lines 567-574)
\* (faulty variant: the one-character literal is missing from NOT IN)
CountsAsNonZero_OnlyLong(amount) ==
    /\ amount # Rep("0", 12)
    /\ amount # NULL
    /\ amount # <<>>
CountsAsNonZero(amount) ==
    /\ amount \notin {<<"0">>, Rep("0", 12)}
    /\ amount # NULL
    /\ amount # <<>>

\* SELECT COUNT(*) ... WHERE <branch_field> = ? (lines 558-565)
TotalCount(rows, branch_code) ==
    Cardinality({k \in 1..Len(rows) : rows[k].branch = branch_code})

NonZeroCount(rows, branch_code) ==
    Cardinality({k \in 1..Len(rows) :
                    /\ rows[k].branch = branch_code
                    /\ CountsAsNonZero(rows[k].amount)})

\* the if / elif chain of lines 578-590 for one header
AuditOutcome(total_count, non_zero_count) ==
    IF total_count = 0 THEN "no_transactions"
    ELSE IF non_zero_count = 0 THEN "only_zero_amounts"
    ELSE IF total_count = 1 /\ non_zero_count = 0 THEN "single_zero_amount"
    ELSE "ok"

\* the for loop over the bank's headers in Id order, from header i on
RECURSIVE AuditFrom(_, _, _, _, _)
AuditFrom(headers, rows, bank, i, acc) ==
    IF i > Len(headers) THEN acc
    ELSE IF headers[i].BankCode # bank
    THEN AuditFrom(headers, rows, bank, i + 1, acc)
    ELSE LET o == AuditOutcome(
                      TotalCount(rows, headers[i].BranchCode),
                      NonZeroCount(rows, headers[i].BranchCode))
         IN  AuditFrom(headers, rows, bank, i + 1,
                IF o = "ok"
                THEN [acc EXCEPT !.filtered = Append(@, i)]
                ELSE [acc EXCEPT !.problems =
                         Append(@, [id |-> i, problem |-> o])])

\* check_and_filter: "raised" when the connection is None (conn.cursor()
\* is called outside the try), "error" when a query raises, else the
\* triple (flag, problems, filtered); filtered holds the headers' Ids
check_and_filter(headers, rows, bank, in) ==
    IF ~in.conn_ok THEN [kind |-> "raised"]
    ELSE IF ~in.query_ok
    THEN [kind |-> "error", flag |-> TRUE, problems |-> <<"error">>,
          filtered |-> <<>>]
    ELSE LET acc == AuditFrom(headers, rows, bank, 1,
                              [problems |-> <<>>, filtered |-> <<>>])
         IN  [kind |-> "checked", flag |-> Len(acc.problems) > 0,
              problems |-> acc.problems, filtered |-> acc.filtered]

AuditInputs ==
    {[conn_ok |-> TRUE, query_ok |-> TRUE],
     [conn_ok |-> FALSE, query_ok |-> TRUE],
     [conn_ok |-> TRUE, query_ok |-> FALSE]}

\* the statements check_and_filter executes are SELECTs (lines 541-547,
\* 559-575); the finally clause closes the connection
\* (faulty variant: the branches found sound are marked Reconciled)
CheckAndFilter_MarksSound ==
    /\ audit_result = [kind |-> "none"]
    /\ pc = "idle"
    /\ \E bank \in Banks, in \in AuditInputs :
          LET res == check_and_filter(bh, tx, bank, in)
          IN  /\ audit_bank' = bank
              /\ audit_result' = res
              /\ bh' = IF res.kind = "checked"
                       THEN [i \in DOMAIN bh |->
                               IF \E k \in 1..Len(res.filtered) :
                                     res.filtered[k] = i
                               THEN [bh[i] EXCEPT !.Status = 1]
                               ELSE bh[i]]
                       ELSE bh
    /\ UNCHANGED <<calcVars, segVars, decVars, tx, mapping, uncommitted,
                   runVars, obsVars>>
CheckAndFilter ==
    /\ audit_result = [kind |-> "none"]
    /\ pc = "idle"
    /\ \E bank \in Banks, in \in AuditInputs :
          /\ audit_bank' = bank
          /\ audit_result' = check_and_filter(bh, tx, bank, in)
    /\ UNCHANGED <<calcVars, segVars, coordVars, decVars>>

(***************************************************************************)
(* Specification SpecAudit: the inspector applied to a drawn store         *)
(***************************************************************************)
AuditRowList ==
    <<StoreRow(Code21, <<"0">>, "001"), StoreRow(Code21, <<"0">>, "002"),
      StoreRow(Code21, Rep("0", 12), "001"),
      StoreRow(Code21, Rep("0", 12), "002"),
      StoreRow(Code21, Amt10000, "001"), StoreRow(Code21, Amt10000, "002"),
      StoreRow(Code23, AmtBlank, "001"), StoreRow(Code23, AmtBlank, "002")>>

AuditTables ==
    UNION {{[i \in 1..k |-> AuditRowList[f[i]]] :
              f \in {g \in [1..k -> 1..Len(AuditRowList)] :
                        \A i, j \in 1..k : i < j => g[i] <= g[j]}} :
           k \in 0..MaxTx}

\* headers in any mix of Pending and Reconciled
InitAudit ==
    /\ CalcIdle
    /\ SegIdle
    /\ DecIdle
    /\ AuditIdle
    /\ \E file_total \in FileTotals, st \in [1..MaxBranches -> {0, 1}] :
          bh = [i \in 1..MaxBranches |->
                   [IngestedHeader(i, file_total) EXCEPT !.Status = st[i]]]
    /\ tx \in AuditTables
    /\ mapping = <<>>
    /\ uncommitted = <<>>
    /\ pc = "idle"
    /\ bank_code = ""
    /\ retry = 0
    /\ pending = <<>>
    /\ idx = 0
    /\ result = "none"
    /\ runs = 0
    /\ passes = 0
    /\ remaps = 0
    /\ pass_result = "none"
    /\ pass_start = {}
    /\ run_ok = TRUE
    /\ run_bh = <<>>
    /\ run_tx = <<>>
    /\ answer = [asked |-> FALSE]
    /\ conn_failed = FALSE
    /\ last_update = [called |-> FALSE]

NextAudit == CheckAndFilter

SpecAudit == InitAudit /\ [][NextAudit]_vars

\* C19: when check_and_filter returns its classification, every header of
\* the bank has exactly one outcome (once in the filtered list or one
\* problem, nothing else is listed); it is in the filtered list exactly
\* when one of the branch's transactions has an amount other than "0" and
\* "000000000000"; a branch whose only transaction has amount "0" gets the
\* only-zero-amounts problem; the flag is true exactly when there is a
\* problem.
BankHeaders == {i \in DOMAIN bh : bh[i].BankCode = audit_bank}

HasNonZeroTransaction(i) ==
    \E k \in 1..Len(tx) :
        /\ tx[k].branch = bh[i].BranchCode
        /\ tx[k].amount \notin {<<"0">>, Rep("0", 12)}

TimesFiltered(i) ==
    Cardinality({k \in 1..Len(audit_result.filtered) :
                    audit_result.filtered[k] = i})

ProblemsOf(i) ==
    {k \in 1..Len(audit_result.problems) : audit_result.problems[k].id = i}

C19_AuditClassification ==
    audit_result.kind = "checked"
    => /\ \A i \in BankHeaders :
             /\ TimesFiltered(i) + Cardinality(ProblemsOf(i)) = 1
             /\ TimesFiltered(i) = 1 <=> HasNonZeroTransaction(i)
             /\ ({k \in 1..Len(tx) : tx[k].branch = bh[i].BranchCode} # {}
                 /\ \A k \in 1..Len(tx) :
                       tx[k].branch = bh[i].BranchCode
                       => tx[k].amount = <<"0">>)
                => \E k \in ProblemsOf(i) :
                      audit_result.problems[k].problem = "only_zero_amounts"
       /\ Len(audit_result.filtered) + Len(audit_result.problems)
            = Cardinality(BankHeaders)
       /\ audit_result.flag <=> (audit_result.problems # <<>>)

\* one branch whose only transaction has amount "0" is flagged, the other
\* branch of the bank is in the filtered list
C19_Witness ==
    /\ audit_result.kind = "checked"
    /\ audit_bank = BankA
    /\ tx = <<StoreRow(Code21, <<"0">>, "001"),
              StoreRow(Code21, Amt10000, "002")>>
    /\ audit_result.flag
    /\ audit_result.filtered = <<2>>
    /\ audit_result.problems = <<[id |-> 1, problem |-> "only_zero_amounts"]>>

\* C28: a call of check_and_filter leaves the store as it found it: no
\* header, no transaction row and no mapping entry differs after the call,
\* and nothing is left uncommitted, whether the call returned its
\* classification, returned the error result or raised.
C28_AuditReadOnly ==
    [][audit_result' # audit_result
       => /\ bh' = bh
          /\ tx' = tx
          /\ mapping' = mapping
          /\ uncommitted' = uncommitted]_vars

\* the inspector has classified a bank with a Pending sound branch and a
\* problem branch
C28_Witness ==
    /\ audit_result.kind = "checked"
    /\ audit_result.flag
    /\ \E k \in 1..Len(audit_result.filtered) :
          bh[audit_result.filtered[k]].Status = 0
    /\ tx # <<>>

====
